---------------------------- MODULE Spec2Model ----------------------------
(***************************************************************************)
(* Model of the connect-evm adapter: the connection manager                *)
(* (MetamaskConnectEVM, connect.ts) and the EIP-1193 provider wrapper      *)
(* (EIP1193Provider).                                                      *)
(*                                                                         *)
(* JavaScript strings are sequences of one-character strings, so that the  *)
(* conversions (numberToHex, hexToNumber, template literals, Number)       *)
(* are computed and not assumed.  A JavaScript value that may be a number, *)
(* a string or undefined is a record [t, n, s].                            *)
(***************************************************************************)
EXTENDS Integers, Sequences, FiniteSets, TLC

(***************************************************************************)
(* Bounds                                                                  *)
(***************************************************************************)
\* suspended calls (awaiting the SDK) that may exist at the same time
MaxPending == 1
\* transport.onNotification callbacks that may accumulate
MaxCallbacks == 2
\* suspended calls of connect and disconnect that may overlap
MaxOverlap == 2

(***************************************************************************)
(* JavaScript values                                                       *)
(***************************************************************************)
Undefined == [t |-> "undefined", n |-> 0, s |-> <<>>]
NaN == [t |-> "NaN", n |-> 0, s |-> <<>>]
Num(n) == [t |-> "number", n |-> n, s |-> <<>>]
Str(s) == [t |-> "string", n |-> 0, s |-> s]

\* JavaScript truthiness of a value
Truthy(v) ==
    CASE v.t = "undefined" -> FALSE
      [] v.t = "NaN" -> FALSE
      [] v.t = "number" -> v.n # 0
      [] v.t = "string" -> v.s # <<>>

Digits == <<"0", "1", "2", "3", "4", "5", "6", "7", "8", "9",
            "a", "b", "c", "d", "e", "f">>

IsDigit(ch, radix) == \E i \in 1..radix : Digits[i] = ch

DigitValue(ch) == (CHOOSE i \in 1..16 : Digits[i] = ch) - 1

\* Number.prototype.toString(radix)
RECURSIVE ToRadix(_, _)
ToRadix(n, radix) ==
    IF n < radix
    THEN <<Digits[n + 1]>>
    ELSE ToRadix(n \div radix, radix) \o <<Digits[(n % radix) + 1]>>

\* value of a digit string in the given radix
RECURSIVE FromRadix(_, _)
FromRadix(s, radix) ==
    IF s = <<>>
    THEN 0
    ELSE FromRadix(SubSeq(s, 1, Len(s) - 1), radix) * radix
         + DigitValue(s[Len(s)])

HasPrefix0x(s) == Len(s) >= 2 /\ s[1] = "0" /\ s[2] = "x"

Strip0x(s) == IF HasPrefix0x(s) THEN SubSeq(s, 3, Len(s)) ELSE s

AllDigits(s, radix) == s # <<>> /\ \A i \in 1..Len(s) : IsDigit(s[i], radix)

\* isHexString of @metamask/utils: a string matching (0x)?[0-9a-f]+
isHex(v) == v.t = "string" /\ AllDigits(Strip0x(v.s), 16)

\* numberToHex of @metamask/utils: "0x" followed by the base-16 digits
numberToHex(n) == <<"0", "x">> \o ToRadix(n, 16)

\* hexToNumber of @metamask/utils
hexToNumber(s) == FromRadix(Strip0x(s), 16)

\* parseInt(string, 16)
parseInt16(s) == FromRadix(Strip0x(s), 16)

\* Number(value): numbers pass, "0x.." is read in base 16, decimal digit
\* strings in base 10, anything else is NaN
Number(v) ==
    CASE v.t = "number" -> v
      [] v.t = "string" /\ HasPrefix0x(v.s) /\ AllDigits(Strip0x(v.s), 16)
           -> Num(FromRadix(Strip0x(v.s), 16))
      [] v.t = "string" /\ AllDigits(v.s, 10) -> Num(FromRadix(v.s, 10))
      [] OTHER -> NaN

Eip155 == <<"e", "i", "p", "1", "5", "5">>

\* the template literal `eip155:${chainId}`
ScopeOf(n) == Eip155 \o <<":">> \o ToRadix(n, 10)

\* the template literal `eip155:${chainId}:${account}`
AccountIdOf(n, account) == ScopeOf(n) \o <<":">> \o account


(***************************************************************************)
(* Inputs                                                                  *)
(***************************************************************************)
\* chain ids a caller or the wallet may name (0 is a number like any other)
ChainIds == {0, 1, 137}

Repeat40(ch) == [i \in 1..40 |-> ch]

\* two syntactically valid addresses
AddressA == <<"0", "x">> \o Repeat40("a")
AddressB == <<"0", "x">> \o Repeat40("b")

\* no account given (undefined)
NoAccount == <<>>

AccountLists == {<<>>, <<AddressA, AddressB>>}

\* AddEthereumChainParameter; defined = FALSE stands for undefined
NoConfig == [defined |-> FALSE, chainId |-> <<>>, chainName |-> ""]
ConfigPolygon ==
    [defined |-> TRUE, chainId |-> numberToHex(137), chainName |-> "Polygon"]
ConfigZero ==
    [defined |-> TRUE, chainId |-> numberToHex(0), chainName |-> "Zero"]
ChainConfigurations == {NoConfig, ConfigPolygon, ConfigZero}

\* sessionScopes objects the SDK may report (their keys)
SessionScopeSets == {{}, {ScopeOf(137)}}

(***************************************************************************)
(* Method sets of constants.ts                                             *)
(***************************************************************************)
\* the ignored set: members that stand for the fixed list
IGNORED_METHODS == {"net_version", "wallet_getPermissions"}

\* the methods with a branch of their own in the interceptor
SPECIAL_METHODS ==
    {"wallet_requestPermissions", "eth_requestAccounts",
     "wallet_revokePermissions", "wallet_switchEthereumChain",
     "wallet_addEthereumChain", "eth_accounts", "eth_coinbase"}

\* the methods the provider hands to the interceptor
INTERCEPTABLE_METHODS == SPECIAL_METHODS \cup IGNORED_METHODS

\* methods that are in neither set
GENERIC_METHODS == {"eth_blockNumber", "personal_sign"}

(***************************************************************************)
(* State                                                                   *)
(***************************************************************************)
VARIABLES
    accounts,                 \* EIP1193Provider.#accounts
    selectedChainId,          \* EIP1193Provider.#selectedChainId
    sessionScopes,            \* MetamaskConnectEVM.#sessionScopes
    latestChainConfiguration, \* MetamaskConnectEVM.#latestChainConfiguration
    eventHandlers,            \* whether the caller supplied eventHandlers
    windowListeners,          \* 'message' listeners on window, in order
    coreListeners,            \* 'wallet_sessionChanged' listeners on core
    notificationCallbacks,    \* callbacks given to transport.onNotification
    pending,                  \* calls suspended awaiting the SDK
    trace                     \* what the last step did, in order

vars == <<accounts, selectedChainId, sessionScopes, latestChainConfiguration,
          eventHandlers, windowListeners, coreListeners,
          notificationCallbacks, pending, trace>>

\* the state as one record, with the effects of the running step
Cur ==
    [accounts |-> accounts,
     selectedChainId |-> selectedChainId,
     sessionScopes |-> sessionScopes,
     latestChainConfiguration |-> latestChainConfiguration,
     eventHandlers |-> eventHandlers,
     windowListeners |-> windowListeners,
     coreListeners |-> coreListeners,
     notificationCallbacks |-> notificationCallbacks,
     pending |-> pending,
     trace |-> <<>>,
     error |-> ""]

Commit(st) ==
    /\ accounts' = st.accounts
    /\ selectedChainId' = st.selectedChainId
    /\ sessionScopes' = st.sessionScopes
    /\ latestChainConfiguration' = st.latestChainConfiguration
    /\ eventHandlers' = st.eventHandlers
    /\ windowListeners' = st.windowListeners
    /\ coreListeners' = st.coreListeners
    /\ notificationCallbacks' = st.notificationCallbacks
    /\ pending' = st.pending
    /\ trace' = st.trace

\* one entry of the trace
Entry(k, name, arg) == [k |-> k, name |-> name, arg |-> arg]

Log(st, k, name, arg) == [st EXCEPT !.trace = Append(@, Entry(k, name, arg))]

\* a throw: the error is recorded and ends the running call
Throw(st, message) ==
    [Log(st, "throw", message, <<>>) EXCEPT !.error = message]

RemoveAll(seq, x) == SelectSeq(seq, LAMBDA y : y # x)

(***************************************************************************)
(* EIP1193Provider                                                         *)
(***************************************************************************)
\* the setter without its guard: whatever is assigned is stored
set_selectedChainId_unguarded(st, chainId) ==
    LET hexChainId ==
            IF Truthy(chainId) /\ chainId.t = "number"
            THEN Str(numberToHex(chainId.n))
            ELSE chainId
    IN  [st EXCEPT !.selectedChainId =
            IF hexChainId.t = "string" THEN hexChainId ELSE Undefined]

\* set selectedChainId(chainId)
set_selectedChainId(st, chainId) ==
    LET hexChainId ==
            IF Truthy(chainId) /\ chainId.t = "number"
            THEN Str(numberToHex(chainId.n))
            ELSE chainId
    IN  IF ~Truthy(hexChainId)
        THEN st
        ELSE [st EXCEPT !.selectedChainId = hexChainId]

\* set accounts(accounts)
set_accounts(st, accs) == [st EXCEPT !.accounts = accs]

\* EventEmitter.emit on the provider
emit(st, event, payload) == Log(st, "emit", event, payload)

\* this.#eventHandlers?.<event>?.(payload)
callHandler(st, event, payload) ==
    IF st.eventHandlers THEN Log(st, "handler", event, payload) ELSE st

(***************************************************************************)
(* MetamaskConnectEVM: internal change handlers                            *)
(***************************************************************************)
\* #onChainChanged(chainId); numberToHex throws unless given a number
onChainChanged(st, chainId) ==
    IF ~isHex(chainId) /\ chainId.t # "number"
    THEN Throw(st, "Assertion failed")
    ELSE LET hexChainId ==
                 IF isHex(chainId) THEN chainId.s ELSE numberToHex(chainId.n)
             s1 == set_selectedChainId(st, chainId)
             s2 == callHandler(s1, "chainChanged", hexChainId)
         IN  emit(s2, "chainChanged", hexChainId)

\* #onAccountsChanged(accounts)
onAccountsChanged(st, accs) ==
    LET s1 == set_accounts(st, accs)
        s2 == emit(s1, "accountsChanged", accs)
    IN  callHandler(s2, "accountsChanged", accs)

\* #onConnect that runs the chain-changed handler before it emits connect
onConnect_chainFirst(st, chainId) ==
    IF ~isHex(chainId) /\ chainId.t # "number"
    THEN Throw(st, "Assertion failed")
    ELSE LET data ==
                 IF isHex(chainId) THEN chainId.s ELSE numberToHex(chainId.n)
             s1 == onChainChanged(st, chainId)
             s2 == emit(s1, "connect", data)
         IN  callHandler(s2, "connect", data)

\* #onConnect({chainId})
onConnect(st, chainId) ==
    IF ~isHex(chainId) /\ chainId.t # "number"
    THEN Throw(st, "Assertion failed")
    ELSE LET data ==
                 IF isHex(chainId) THEN chainId.s ELSE numberToHex(chainId.n)
             s1 == emit(st, "connect", data)
             s2 == callHandler(s1, "connect", data)
         IN  onChainChanged(s2, chainId)

\* #onDisconnect()
onDisconnect(st) ==
    LET s1 == emit(st, "disconnect", <<>>)
        s2 == callHandler(s1, "disconnect", <<>>)
    IN  onAccountsChanged(s2, <<>>)

\* #clearConnectionState()
clearConnectionState(st) ==
    LET s1 == set_accounts(st, <<>>)
    IN  set_selectedChainId(s1, Undefined)

\* #request(request): transport.sendEip1193Message, not awaited
sendRequest(st, method, params) == Log(st, "send", method, params)

(***************************************************************************)
(* getPermittedEthChainIds (utils/type-guards.ts)                          *)
(***************************************************************************)
IsEip155Scope(scope) ==
    /\ Len(scope) > Len(Eip155) + 1
    /\ SubSeq(scope, 1, Len(Eip155)) = Eip155
    /\ scope[Len(Eip155) + 1] = ":"
    /\ AllDigits(SubSeq(scope, Len(Eip155) + 2, Len(scope)), 10)

ScopeReference(scope) ==
    FromRadix(SubSeq(scope, Len(Eip155) + 2, Len(scope)), 10)

\* a permitted-chain lookup that finds nothing
getPermittedEthChainIds_none(scopes) == {}

\* getPermittedEthChainIds(sessionScopes): the hex chain ids of the eip155
\* scopes
getPermittedEthChainIds(scopes) ==
    {numberToHex(ScopeReference(sc)) : sc \in {x \in scopes : IsEip155Scope(x)}}

(***************************************************************************)
(* MetamaskConnectEVM: operations                                          *)
(***************************************************************************)
\* a suspended call
Suspended(op, chainId, account) ==
    [op |-> op, chainId |-> chainId, account |-> account]

\* connect() that leaves the account out of the request
connect_call_noAccount(st, args) ==
    LET chainId == IF args.given THEN args.chainId ELSE Num(1)
        account == IF args.given THEN args.account ELSE NoAccount
        caipChainId ==
            IF Truthy(chainId) THEN <<ScopeOf(chainId.n)>> ELSE <<>>
        s1 == Log(st, "sdk", "connect",
                  [scopes |-> caipChainId, accountIds |-> <<>>])
    IN  [s1 EXCEPT !.pending =
             Append(@, Suspended("connect", chainId, account))]

\* connect(), up to the await of core.connect
connect_call(st, args) ==
    LET chainId == IF args.given THEN args.chainId ELSE Num(1)
        account == IF args.given THEN args.account ELSE NoAccount
        caipChainId ==
            IF Truthy(chainId) THEN <<ScopeOf(chainId.n)>> ELSE <<>>
        caipAccountId ==
            IF Truthy(chainId) /\ account # <<>>
            THEN <<AccountIdOf(chainId.n, account)>>
            ELSE <<>>
        s1 == Log(st, "sdk", "connect",
                  [scopes |-> caipChainId, accountIds |-> caipAccountId])
    IN  [s1 EXCEPT !.pending =
             Append(@, Suspended("connect", chainId, account))]

\* connect(), after core.connect has resolved
connect_resume(st, p) ==
    IF p.chainId.t # "number"
    THEN Throw(st, "Assertion failed")
    ELSE LET s1 == set_selectedChainId(st, Str(numberToHex(p.chainId.n)))
             s2 == Log([s1 EXCEPT !.notificationCallbacks = @ + 1],
                       "onNotification", "add", <<>>)
             s3 == onConnect(s2, s2.selectedChainId)
         IN  IF s3.error # ""
             THEN s3
             ELSE Log(s3, "return", "connect",
                      [accounts |-> s3.accounts,
                       chainId |-> hexToNumber(s3.selectedChainId.s)])

\* disconnect(), up to the await of core.disconnect
disconnect_call(st) ==
    LET s1 == Log(st, "sdk", "disconnect", <<>>)
    IN  [s1 EXCEPT !.pending =
             Append(@, Suspended("disconnect", Undefined, NoAccount))]

\* a disconnect that clears the state without running #onDisconnect
disconnect_resume_clearOnly(st) ==
    LET s2 == clearConnectionState(st)
        s3 == Log([s2 EXCEPT !.windowListeners =
                       RemoveAll(@, "metamaskProviderHandler")],
                  "removeEventListener", "metamaskProviderHandler", <<>>)
        s4 == Log([s3 EXCEPT !.coreListeners =
                       RemoveAll(@, "sessionChangedHandler")],
                  "off", "sessionChangedHandler", <<>>)
    IN  Log(s4, "return", "disconnect", <<>>)

\* disconnect(), after core.disconnect has resolved
disconnect_resume(st) ==
    LET s1 == onDisconnect(st)
        s2 == clearConnectionState(s1)
        s3 == Log([s2 EXCEPT !.windowListeners =
                       RemoveAll(@, "metamaskProviderHandler")],
                  "removeEventListener", "metamaskProviderHandler", <<>>)
        s4 == Log([s3 EXCEPT !.coreListeners =
                       RemoveAll(@, "sessionChangedHandler")],
                  "off", "sessionChangedHandler", <<>>)
    IN  Log(s4, "return", "disconnect", <<>>)

\* terminate(): await this.disconnect()
terminate_call(st) == disconnect_call(st)

\* #addEthereumChain(chainConfiguration)
addEthereumChain(st, chainConfiguration) ==
    LET config ==
            IF chainConfiguration.defined
            THEN chainConfiguration
            ELSE st.latestChainConfiguration
    IN  IF ~config.defined
        THEN Throw(st, "No chain configuration found.")
        ELSE sendRequest(st, "wallet_addEthereumChain", config)

\* switchChain without the comparison with the selected chain
switchChain_noSelectedCheck(st, chainId, chainConfiguration) ==
    IF ~isHex(chainId) /\ chainId.t # "number"
    THEN Throw(st, "Assertion failed")
    ELSE LET hexChainId ==
                 IF isHex(chainId) THEN chainId.s ELSE numberToHex(chainId.n)
         IN  IF hexChainId \in getPermittedEthChainIds(st.sessionScopes)
             THEN onChainChanged(st, Str(hexChainId))
             ELSE sendRequest(
                      [st EXCEPT !.latestChainConfiguration =
                                     chainConfiguration],
                      "wallet_switchEthereumChain", hexChainId)

\* switchChain that does not keep the chain configuration
switchChain_noPending(st, chainId, chainConfiguration) ==
    IF ~isHex(chainId) /\ chainId.t # "number"
    THEN Throw(st, "Assertion failed")
    ELSE LET hexChainId ==
                 IF isHex(chainId) THEN chainId.s ELSE numberToHex(chainId.n)
         IN  IF st.selectedChainId = Str(hexChainId)
             THEN st
             ELSE IF hexChainId \in getPermittedEthChainIds(st.sessionScopes)
             THEN onChainChanged(st, Str(hexChainId))
             ELSE sendRequest(st, "wallet_switchEthereumChain", hexChainId)

\* switchChain({chainId, chainConfiguration})
switchChain(st, chainId, chainConfiguration) ==
    IF ~isHex(chainId) /\ chainId.t # "number"
    THEN Throw(st, "Assertion failed")
    ELSE LET hexChainId ==
                 IF isHex(chainId) THEN chainId.s ELSE numberToHex(chainId.n)
         IN  IF st.selectedChainId = Str(hexChainId)
             THEN st
             ELSE IF hexChainId \in getPermittedEthChainIds(st.sessionScopes)
             THEN onChainChanged(st, Str(hexChainId))
             ELSE sendRequest(
                      [st EXCEPT !.latestChainConfiguration =
                                     chainConfiguration],
                      "wallet_switchEthereumChain", hexChainId)

\* a ProviderRequest; the fields a method does not use are empty
Request(method, chainId, account, config, params) ==
    [method |-> method, chainId |-> chainId, account |-> account,
     config |-> config, params |-> params]

\* the interceptor without the branch of the ignored methods
requestInterceptor_noIgnored(st, request) ==
    IF request.method = "wallet_revokePermissions"
    THEN disconnect_call(st)
    ELSE IF request.method \in {"wallet_requestPermissions",
                                "eth_requestAccounts"}
    THEN connect_call(st,
             [given |-> TRUE,
              chainId |-> IF request.chainId.t = "undefined"
                          THEN Num(1) ELSE request.chainId,
              account |-> request.account])
    ELSE IF request.method = "wallet_switchEthereumChain"
    THEN LET s1 == switchChain(st, Num(parseInt16(request.chainId.s)),
                               NoConfig)
         IN  IF s1.error # "" THEN s1
             ELSE Log(s1, "return", "request", <<>>)
    ELSE IF request.method = "wallet_addEthereumChain"
    THEN LET s1 == addEthereumChain(st, request.config)
         IN  IF s1.error # "" THEN s1
             ELSE Log(s1, "return", "request", <<>>)
    ELSE IF request.method \in {"eth_accounts", "eth_coinbase"}
    THEN Log(st, "return", "request", st.accounts)
    ELSE Log(st, "return", "request", <<>>)

\* the interceptor without the branch of wallet_revokePermissions
requestInterceptor_noRevoke(st, request) ==
    IF request.method \in IGNORED_METHODS
    THEN Throw(st, "Method is not supported by Metamask Connect/EVM")
    ELSE IF request.method \in {"wallet_requestPermissions",
                                "eth_requestAccounts"}
    THEN connect_call(st,
             [given |-> TRUE,
              chainId |-> IF request.chainId.t = "undefined"
                          THEN Num(1) ELSE request.chainId,
              account |-> request.account])
    ELSE IF request.method = "wallet_switchEthereumChain"
    THEN LET s1 == switchChain(st, Num(parseInt16(request.chainId.s)),
                               NoConfig)
         IN  IF s1.error # "" THEN s1
             ELSE Log(s1, "return", "request", <<>>)
    ELSE IF request.method = "wallet_addEthereumChain"
    THEN LET s1 == addEthereumChain(st, request.config)
         IN  IF s1.error # "" THEN s1
             ELSE Log(s1, "return", "request", <<>>)
    ELSE IF request.method \in {"eth_accounts", "eth_coinbase"}
    THEN Log(st, "return", "request", st.accounts)
    ELSE Log(st, "return", "request", <<>>)

\* the interceptor without the branch of the account queries
requestInterceptor_noAccounts(st, request) ==
    IF request.method \in IGNORED_METHODS
    THEN Throw(st, "Method is not supported by Metamask Connect/EVM")
    ELSE IF request.method = "wallet_revokePermissions"
    THEN disconnect_call(st)
    ELSE IF request.method \in {"wallet_requestPermissions",
                                "eth_requestAccounts"}
    THEN connect_call(st,
             [given |-> TRUE,
              chainId |-> IF request.chainId.t = "undefined"
                          THEN Num(1) ELSE request.chainId,
              account |-> request.account])
    ELSE IF request.method = "wallet_switchEthereumChain"
    THEN LET s1 == switchChain(st, Num(parseInt16(request.chainId.s)),
                               NoConfig)
         IN  IF s1.error # "" THEN s1
             ELSE Log(s1, "return", "request", <<>>)
    ELSE IF request.method = "wallet_addEthereumChain"
    THEN LET s1 == addEthereumChain(st, request.config)
         IN  IF s1.error # "" THEN s1
             ELSE Log(s1, "return", "request", <<>>)
    ELSE Log(st, "return", "request", <<>>)

\* #requestInterceptor(request), up to its first await
requestInterceptor(st, request) ==
    IF request.method \in IGNORED_METHODS
    THEN Throw(st, "Method is not supported by Metamask Connect/EVM")
    ELSE IF request.method = "wallet_revokePermissions"
    THEN disconnect_call(st)
    ELSE IF request.method \in {"wallet_requestPermissions",
                                "eth_requestAccounts"}
    THEN connect_call(st,
             [given |-> TRUE,
              chainId |-> IF request.chainId.t = "undefined"
                          THEN Num(1) ELSE request.chainId,
              account |-> request.account])
    ELSE IF request.method = "wallet_switchEthereumChain"
    THEN LET s1 == switchChain(st, Num(parseInt16(request.chainId.s)),
                               NoConfig)
         IN  IF s1.error # "" THEN s1
             ELSE Log(s1, "return", "request", <<>>)
    ELSE IF request.method = "wallet_addEthereumChain"
    THEN LET s1 == addEthereumChain(st, request.config)
         IN  IF s1.error # "" THEN s1
             ELSE Log(s1, "return", "request", <<>>)
    ELSE IF request.method \in {"eth_accounts", "eth_coinbase"}
    THEN Log(st, "return", "request", st.accounts)
    ELSE Log(st, "return", "request", <<>>)

(***************************************************************************)
(* EIP1193Provider.request                                                 *)
(***************************************************************************)
\* request() that writes the chain id of the scope in base 16
request_hexScope(st, req) ==
    IF req.method \in INTERCEPTABLE_METHODS
    THEN requestInterceptor(st, req)
    ELSE IF ~Truthy(st.selectedChainId)
    THEN Throw(st, "No chain ID selected")
    ELSE LET chainId == hexToNumber(st.selectedChainId.s)
             s1 == Log(st, "sdk", "invokeMethod",
                       [scope |-> Eip155 \o <<":">> \o ToRadix(chainId, 16),
                        method |-> req.method,
                        params |-> req.params])
         IN  [s1 EXCEPT !.pending =
                  Append(@, Suspended("invokeMethod", Undefined, NoAccount))]

\* request() that hands only the connect-like methods to the interceptor
request_forwardRest(st, req) ==
    IF req.method \in {"wallet_requestPermissions", "eth_requestAccounts"}
    THEN requestInterceptor(st, req)
    ELSE IF ~Truthy(st.selectedChainId)
    THEN Throw(st, "No chain ID selected")
    ELSE LET chainId == hexToNumber(st.selectedChainId.s)
             s1 == Log(st, "sdk", "invokeMethod",
                       [scope |-> ScopeOf(chainId),
                        method |-> req.method,
                        params |-> req.params])
         IN  [s1 EXCEPT !.pending =
                  Append(@, Suspended("invokeMethod", Undefined, NoAccount))]

\* request() that selects mainnet itself when no chain is selected
request_defaultChain(st, req) ==
    IF req.method \in INTERCEPTABLE_METHODS
    THEN requestInterceptor(st, req)
    ELSE LET s0 == IF ~Truthy(st.selectedChainId)
                   THEN onChainChanged(st, Num(1))
                   ELSE st
             chainId == hexToNumber(s0.selectedChainId.s)
             s1 == Log(s0, "sdk", "invokeMethod",
                       [scope |-> ScopeOf(chainId),
                        method |-> req.method,
                        params |-> req.params])
         IN  [s1 EXCEPT !.pending =
                  Append(@, Suspended("invokeMethod", Undefined, NoAccount))]

\* request(request), up to its first await
request(st, req) ==
    IF req.method \in INTERCEPTABLE_METHODS
    THEN requestInterceptor(st, req)
    ELSE IF ~Truthy(st.selectedChainId)
    THEN Throw(st, "No chain ID selected")
    ELSE LET chainId == hexToNumber(st.selectedChainId.s)
             s1 == Log(st, "sdk", "invokeMethod",
                       [scope |-> ScopeOf(chainId),
                        method |-> req.method,
                        params |-> req.params])
         IN  [s1 EXCEPT !.pending =
                  Append(@, Suspended("invokeMethod", Undefined, NoAccount))]

(***************************************************************************)
(* Inbound notifications                                                   *)
(***************************************************************************)
\* a window 'message' event: event.data.data.name, whether event.origin is
\* location.origin, and the fields of event.data.data.data
MessageEvent(name, sameOrigin, method, params, chainId, code, has, result) ==
    [name |-> name, sameOrigin |-> sameOrigin, method |-> method,
     params |-> params, chainId |-> chainId, code |-> code,
     hasResult |-> has, result |-> result]

ProviderMessage(method, params, chainId, code, hasResult, result) ==
    MessageEvent("metamask-provider", TRUE, method, params, chainId, code,
                 hasResult, result)

\* an address list with an entry that is not an address
NotAddresses == <<AddressA, <<"0", "x", "1">>>>

\* the chain ids a notification may carry: hex strings, or nothing
NotifiedChainIds == {Str(numberToHex(c)) : c \in ChainIds} \cup {Undefined}

MessageEvents ==
    {ProviderMessage("metamask_accountsChanged", a, Undefined, 0, FALSE, <<>>)
        : a \in AccountLists}
    \cup
    {ProviderMessage("metamask_chainChanged", <<>>, c, 0, FALSE, <<>>)
        : c \in NotifiedChainIds}
    \cup
    {ProviderMessage("", <<>>, Undefined, code, FALSE, <<>>)
        : code \in {4902, 4001}}
    \cup
    {ProviderMessage("", <<>>, Undefined, 0, TRUE, r)
        : r \in {<<>>, <<AddressA, AddressB>>, NotAddresses}}
    \cup
    {MessageEvent("other", TRUE, "metamask_accountsChanged", <<AddressB>>,
                  Undefined, 0, FALSE, <<>>),
     MessageEvent("metamask-provider", FALSE, "metamask_chainChanged", <<>>,
                  Str(numberToHex(1)), 0, FALSE, <<>>)}

\* #isMetamaskProviderEvent(event)
isMetamaskProviderEvent(event) ==
    event.name = "metamask-provider" /\ event.sameOrigin

\* isHexAddress of @metamask/utils: 0x and 40 lower-case hex digits
isHexAddress(a) ==
    /\ Len(a) = 42
    /\ HasPrefix0x(a)
    /\ AllDigits(SubSeq(a, 3, 42), 16)

\* #metamaskProviderHandler(event)
metamaskProviderHandler(st, event) ==
    IF ~isMetamaskProviderEvent(event)
    THEN st
    ELSE LET s1 == IF event.method = "metamask_accountsChanged"
                   THEN onAccountsChanged(st, event.params)
                   ELSE st
             s2 == IF event.method = "metamask_chainChanged"
                   THEN onChainChanged(s1, Number(event.chainId))
                   ELSE s1
         IN  IF s2.error # ""
             THEN s2
             ELSE IF event.code = 4902
             THEN addEthereumChain(s2, NoConfig)
             ELSE s2

\* a recovery listener that stays registered after it has matched
recoverSession_keep(st, event) ==
    IF ~isMetamaskProviderEvent(event)
    THEN st
    ELSE IF /\ event.hasResult
            /\ \A i \in 1..Len(event.result) : isHexAddress(event.result[i])
    THEN onAccountsChanged(st, event.result)
    ELSE st

\* recoverSession(event), the listener of #attemptSessionRecovery
recoverSession(st, event) ==
    IF ~isMetamaskProviderEvent(event)
    THEN st
    ELSE IF /\ event.hasResult
            /\ \A i \in 1..Len(event.result) : isHexAddress(event.result[i])
    THEN LET s1 == onAccountsChanged(st, event.result)
         IN  Log([s1 EXCEPT !.windowListeners =
                      RemoveAll(@, "recoverSession")],
                 "removeEventListener", "recoverSession", <<>>)
    ELSE st

\* dispatch of a 'message' event to the listeners registered when it
\* starts; an error thrown by a listener does not stop the dispatch
RECURSIVE DispatchMessage(_, _, _)
DispatchMessage(st, listeners, event) ==
    IF listeners = <<>>
    THEN st
    ELSE LET s0 == [st EXCEPT !.error = ""]
             s1 == IF Head(listeners) = "metamaskProviderHandler"
                   THEN metamaskProviderHandler(s0, event)
                   ELSE recoverSession(s0, event)
         IN  DispatchMessage(s1, Tail(listeners), event)

\* a notification of the transport: its method and params
Notification(method, params, chainId) ==
    [method |-> method, params |-> params, chainId |-> chainId]

Notifications ==
    {Notification("metamask_accountsChanged", a, Undefined)
        : a \in AccountLists}
    \cup
    {Notification("metamask_chainChanged", <<>>, c) : c \in NotifiedChainIds}
    \cup
    {Notification("wallet_notify", <<>>, Undefined)}

\* the callback connect() gives to transport.onNotification
onNotification(st, notification) ==
    LET s1 == IF notification.method = "metamask_accountsChanged"
              THEN onAccountsChanged(st, notification.params)
              ELSE st
    IN  IF notification.method = "metamask_chainChanged"
        THEN onChainChanged(s1, Number(notification.chainId))
        ELSE s1

\* the transport calls every callback it was given
RECURSIVE DispatchNotification(_, _, _)
DispatchNotification(st, n, notification) ==
    IF n = 0
    THEN st
    ELSE DispatchNotification(
             onNotification([st EXCEPT !.error = ""], notification),
             n - 1, notification)

\* a wallet_sessionChanged payload: a session with scopes, or nothing
SessionData(defined, scopes) == [defined |-> defined, sessionScopes |-> scopes]

Sessions ==
    {SessionData(TRUE, sc) : sc \in SessionScopeSets}
    \cup {SessionData(FALSE, {})}

\* #sessionChangedHandler(session)
sessionChangedHandler(st, session) ==
    [st EXCEPT !.sessionScopes =
        IF session.defined THEN session.sessionScopes ELSE {}]

\* core emits 'wallet_sessionChanged' to its listeners
RECURSIVE DispatchSessionChanged(_, _, _)
DispatchSessionChanged(st, listeners, session) ==
    IF listeners = <<>>
    THEN st
    ELSE DispatchSessionChanged(sessionChangedHandler(st, session),
                                Tail(listeners), session)

(***************************************************************************)
(* Construction                                                            *)
(***************************************************************************)
\* the notification queues createMetamaskConnectEVM may have collected
NotificationQueues ==
    {<<>>,
     <<Notification("wallet_notify", <<>>, Undefined)>>,
     <<Notification("wallet_notify", <<>>, Undefined),
       Notification("wallet_sessionChanged", <<>>, Undefined)>>}

\* #attemptSessionRecovery(events)
attemptSessionRecovery(st, events) ==
    IF \E i \in 1..Len(events) : events[i].method = "wallet_sessionChanged"
    THEN LET s1 == Log([st EXCEPT !.windowListeners =
                            Append(@, "recoverSession")],
                       "addEventListener", "recoverSession", <<>>)
         IN  sendRequest(s1, "eth_accounts", <<>>)
    ELSE st

\* new MetamaskConnectEVM({core, eventHandlers, notificationQueue})
constructor(handlers, notificationQueue) ==
    LET s0 == [accounts |-> <<>>,
               selectedChainId |-> Undefined,
               sessionScopes |-> {},
               latestChainConfiguration |-> NoConfig,
               eventHandlers |-> handlers,
               windowListeners |-> <<>>,
               coreListeners |-> <<>>,
               notificationCallbacks |-> 0,
               pending |-> <<>>,
               trace |-> <<>>,
               error |-> ""]
        c0 == Log(s0, "call", "constructor", notificationQueue)
        s1 == Log([c0 EXCEPT !.windowListeners =
                       Append(@, "metamaskProviderHandler")],
                  "addEventListener", "metamaskProviderHandler", <<>>)
        \* the listener given to core.on is a new function made by bind
        s2 == Log([s1 EXCEPT !.coreListeners =
                       Append(@, "sessionChangedHandler.bind")],
                  "on", "sessionChangedHandler.bind", <<>>)
    IN  attemptSessionRecovery(s2, notificationQueue)

\* the manager is constructed with handlers for the four events, so that
\* every call of a caller handler is seen, and with any of the queues
Init ==
    \E queue \in NotificationQueues :
        LET st == constructor(TRUE, queue)
        IN  /\ accounts = st.accounts
            /\ selectedChainId = st.selectedChainId
            /\ sessionScopes = st.sessionScopes
            /\ latestChainConfiguration = st.latestChainConfiguration
            /\ eventHandlers = st.eventHandlers
            /\ windowListeners = st.windowListeners
            /\ coreListeners = st.coreListeners
            /\ notificationCallbacks = st.notificationCallbacks
            /\ pending = st.pending
            /\ trace = st.trace

(***************************************************************************)
(* Steps                                                                   *)
(***************************************************************************)
\* the arguments connect() may be given; given = FALSE is connect()
ConnectArgs ==
    {[given |-> TRUE, chainId |-> Num(0), account |-> NoAccount],
     [given |-> TRUE, chainId |-> Num(1), account |-> NoAccount],
     [given |-> TRUE, chainId |-> Num(137), account |-> AddressA],
     [given |-> FALSE, chainId |-> Undefined, account |-> NoAccount]}

\* the requests a dapp may make
Requests ==
    {Request("wallet_requestPermissions", Undefined, NoAccount, NoConfig, ""),
     Request("eth_requestAccounts", Num(137), AddressA, NoConfig, ""),
     Request("eth_requestAccounts", Num(0), NoAccount, NoConfig, "")}
    \cup
    {Request("wallet_switchEthereumChain", Str(numberToHex(n)), NoAccount,
             NoConfig, "") : n \in ChainIds}
    \cup
    {Request("wallet_addEthereumChain", Undefined, NoAccount, cfg, "")
        : cfg \in ChainConfigurations}
    \cup
    {Request(m, Undefined, NoAccount, NoConfig, "p1")
        : m \in {"wallet_revokePermissions", "eth_accounts", "eth_coinbase"}
               \cup IGNORED_METHODS \cup GENERIC_METHODS}
    \cup
    {Request("personal_sign", Undefined, NoAccount, NoConfig, "p2")}

\* what core.invokeMethod may answer
InvokeResults == {"r1", "r2"}

\* what the SDK answered to the suspended call at position i (the calls are
\* kept in the order in which they were made)
Answer(i, result) == [at |-> i, call |-> pending[i], result |-> result]

RemoveAt(seq, i) == SubSeq(seq, 1, i - 1) \o SubSeq(seq, i + 1, Len(seq))

PendingConnects ==
    Cardinality({i \in 1..Len(pending) : pending[i].op = "connect"})

\* a new call may suspend
CanSuspend == Len(pending) < MaxPending

\* a further connect may install a further callback
CanConnect == notificationCallbacks + PendingConnects < MaxCallbacks

\* the dapp calls connect(args)
Connect(args) ==
    /\ CanSuspend
    /\ CanConnect
    /\ Commit(connect_call(Log(Cur, "call", "connect", args), args))

\* the dapp calls disconnect()
Disconnect ==
    /\ CanSuspend
    /\ Commit(disconnect_call(Log(Cur, "call", "disconnect", <<>>)))

\* the dapp calls terminate()
Terminate ==
    /\ CanSuspend
    /\ Commit(terminate_call(Log(Cur, "call", "terminate", <<>>)))

\* the dapp calls switchChain({chainId, chainConfiguration})
SwitchChain(chainId, chainConfiguration) ==
    Commit(switchChain(
        Log(Cur, "call", "switchChain",
            [chainId |-> chainId, chainConfiguration |-> chainConfiguration]),
        chainId, chainConfiguration))

\* the requests that await the SDK
Suspends(req) ==
    \/ req.method \in {"wallet_requestPermissions", "eth_requestAccounts",
                        "wallet_revokePermissions"}
    \/ req.method \notin INTERCEPTABLE_METHODS /\ Truthy(selectedChainId)

\* the dapp calls provider.request(req)
ProviderRequest(req) ==
    /\ Suspends(req) => CanSuspend
    /\ req.method \in {"wallet_requestPermissions", "eth_requestAccounts"}
           => CanConnect
    /\ Commit(request(Log(Cur, "call", "request", req), req))

\* core.connect resolves and connect() runs to its end
ResolveConnect(i) ==
    /\ pending[i].op = "connect"
    /\ Commit(connect_resume(
           Log([Cur EXCEPT !.pending = RemoveAt(@, i)],
               "resume", "connect", Answer(i, "")),
           pending[i]))

\* core.disconnect resolves and disconnect() runs to its end
ResolveDisconnect(i) ==
    /\ pending[i].op = "disconnect"
    /\ Commit(disconnect_resume(
           Log([Cur EXCEPT !.pending = RemoveAt(@, i)],
               "resume", "disconnect", Answer(i, ""))))

\* core.invokeMethod resolves and request() returns its result
ResolveInvoke(i, result) ==
    /\ pending[i].op = "invokeMethod"
    /\ Commit(Log(Log([Cur EXCEPT !.pending = RemoveAt(@, i)],
                      "resume", "invokeMethod", Answer(i, result)),
                  "return", "request", result))

\* a rejection that is swallowed: the suspended call goes on as if the SDK
\* had answered
Reject_swallowed(i) ==
    \/ /\ pending[i].op = "connect"
       /\ Commit(connect_resume(
              Log([Cur EXCEPT !.pending = RemoveAt(@, i)],
                  "resume", "connect",
                  Answer(i, "upstream failure")),
              pending[i]))
    \/ /\ pending[i].op # "connect"
       /\ Commit(disconnect_resume(
              Log([Cur EXCEPT !.pending = RemoveAt(@, i)],
                  "resume", pending[i].op,
                  Answer(i, "upstream failure"))))

\* the SDK rejects a suspended call: the call rejects with that error
Reject(i) ==
    Commit(Throw(Log([Cur EXCEPT !.pending = RemoveAt(@, i)],
                     "resume", pending[i].op,
                     Answer(i, "upstream failure")),
                 "upstream failure"))

\* a 'message' event reaches the window
WindowMessage(event) ==
    Commit(DispatchMessage(Log(Cur, "message", event.method, event),
                           windowListeners, event))

\* the transport delivers a notification
TransportNotification(notification) ==
    Commit(DispatchNotification(
        Log(Cur, "notification", notification.method, notification),
        notificationCallbacks, notification))

\* core emits wallet_sessionChanged
SessionChanged(session) ==
    Commit(DispatchSessionChanged(
        Log(Cur, "wallet_sessionChanged", "", session),
        coreListeners, session))

\* switchChain takes a number or a hex string, with or without a
\* chainConfiguration
SwitchChainArgs ==
    {[chainId |-> Num(c), chainConfiguration |-> cfg]
        : c \in ChainIds, cfg \in {NoConfig, ConfigPolygon}}
    \cup {[chainId |-> Str(numberToHex(137)), chainConfiguration |-> ConfigZero],
          [chainId |-> Str(numberToHex(1)), chainConfiguration |-> NoConfig]}

Next ==
    \/ \E args \in ConnectArgs : Connect(args)
    \/ Disconnect
    \/ Terminate
    \/ \E a \in SwitchChainArgs :
           SwitchChain(a.chainId, a.chainConfiguration)
    \/ \E req \in Requests : ProviderRequest(req)
    \/ \E i \in 1..Len(pending) : ResolveConnect(i)
    \/ \E i \in 1..Len(pending) : ResolveDisconnect(i)
    \/ \E i \in 1..Len(pending), r \in InvokeResults : ResolveInvoke(i, r)
    \/ \E i \in 1..Len(pending) : Reject(i)
    \/ \E event \in MessageEvents : WindowMessage(event)
    \/ \E n \in Notifications : TransportNotification(n)
    \/ \E session \in Sessions : SessionChanged(session)

Spec == Init /\ [][Next]_vars

\* the values a dapp may assign to provider.selectedChainId
AssignedChainIds ==
    {Undefined, Str(<<>>), NaN}
    \cup {Num(c) : c \in ChainIds}
    \cup {Str(numberToHex(c)) : c \in ChainIds}

\* the dapp assigns provider.selectedChainId = chainId
SetSelectedChainId(chainId) ==
    Commit(set_selectedChainId(
        Log(Cur, "call", "set selectedChainId", chainId), chainId))

NextSetter ==
    \/ Next
    \/ \E c \in AssignedChainIds : SetSelectedChainId(c)

\* the manager together with a dapp that also assigns to the provider
SpecSetter == Init /\ [][NextSetter]_vars

\* a call of connect or disconnect may be made while another is suspended
CanOverlap == Len(pending) < MaxOverlap

\* the dapp calls connect(args), possibly while an earlier call is suspended
OverlapConnect(args) ==
    /\ CanOverlap
    /\ CanConnect
    /\ Commit(connect_call(Log(Cur, "call", "connect", args), args))

\* the dapp calls disconnect(), possibly while an earlier call is suspended
OverlapDisconnect ==
    /\ CanOverlap
    /\ Commit(disconnect_call(Log(Cur, "call", "disconnect", <<>>)))

NextOverlap ==
    \/ \E args \in ConnectArgs : OverlapConnect(args)
    \/ OverlapDisconnect
    \/ \E i \in 1..Len(pending) : ResolveConnect(i)
    \/ \E i \in 1..Len(pending) : ResolveDisconnect(i)

\* the manager with a dapp whose calls of connect and disconnect overlap
SpecOverlap == Init /\ [][NextOverlap]_vars

(***************************************************************************)
(* Reading the trace of a step                                             *)
(***************************************************************************)
\* the step is a call of the named operation
IsCall(tr, name) == tr # <<>> /\ tr[1].k = "call" /\ tr[1].name = name

\* the step is the continuation of the named suspended call
IsResume(tr, name) == tr # <<>> /\ tr[1].k = "resume" /\ tr[1].name = name

\* the step ended with the named call returning
Returned(tr, name) ==
    tr # <<>> /\ tr[Len(tr)].k = "return" /\ tr[Len(tr)].name = name

\* the step ended with a throw (a rejection) carrying the message
Threw(tr, message) ==
    tr # <<>> /\ tr[Len(tr)].k = "throw" /\ tr[Len(tr)].name = message

\* the positions of the entries of a kind and name
Where(tr, k, name) == {i \in 1..Len(tr) : tr[i].k = k /\ tr[i].name = name}

\* the positions of the entries of a kind
WhereKind(tr, k) == {i \in 1..Len(tr) : tr[i].k = k}

\* the step is the delivery of a notification on one of the channels
IsDelivery(tr) ==
    tr # <<>> /\ tr[1].k \in {"message", "notification", "wallet_sessionChanged"}

\* the hex form of a chain id given as a number or as a hex string
HexForm(chainId) ==
    IF chainId.t = "number" THEN numberToHex(chainId.n) ELSE chainId.s

(***************************************************************************)
(* C1                                                                      *)
(***************************************************************************)
\* C1: in the state in which a call of disconnect() has completed, the
\* account list is empty and selectedChainId is undefined.
C1_DisconnectClearsSession ==
    Returned(trace, "disconnect")
        => accounts = <<>> /\ selectedChainId = Undefined

(***************************************************************************)
(* C2                                                                      *)
(***************************************************************************)
\* C2: once disconnect() has completed, a notification delivered next, on
\* any channel, changes neither accounts, selectedChainId nor the stored
\* session scopes, and emits no provider event.
C2_NoDeliveryAfterDisconnect ==
    [][(Returned(trace, "disconnect") /\ IsDelivery(trace'))
          => /\ UNCHANGED <<accounts, selectedChainId, sessionScopes>>
             /\ WhereKind(trace', "emit") = {}]_vars

(***************************************************************************)
(* C3                                                                      *)
(***************************************************************************)
\* the step is a call of connect, directly or through a connect-like request
IsConnectCall(tr) ==
    \/ IsCall(tr, "connect")
    \/ /\ IsCall(tr, "request")
       /\ tr[1].arg.method \in {"wallet_requestPermissions",
                                "eth_requestAccounts"}

\* the chain id a call of connect names (1 when it names none)
CalledChainId(tr) ==
    IF IsCall(tr, "connect")
    THEN IF tr[1].arg.given THEN tr[1].arg.chainId.n ELSE 1
    ELSE IF tr[1].arg.chainId.t = "undefined" THEN 1 ELSE tr[1].arg.chainId.n

\* the account a call of connect names (none when it names none)
CalledAccount(tr) ==
    IF IsCall(tr, "connect") /\ ~tr[1].arg.given
    THEN NoAccount
    ELSE tr[1].arg.account

\* the call asked the SDK to connect with exactly these scopes and accounts
AskedToConnect(tr, scopes, accountIds) ==
    /\ Len(tr) = 2
    /\ tr[2].k = "sdk"
    /\ tr[2].name = "connect"
    /\ tr[2].arg.scopes = scopes
    /\ tr[2].arg.accountIds = accountIds

\* connect has returned with chain c selected and c as its chainId
ConnectedTo(tr, c) ==
    /\ selectedChainId = Str(numberToHex(c))
    /\ tr[Len(tr)].arg.chainId = c

IsGenericRequest(tr) ==
    /\ IsCall(tr, "request")
    /\ tr[1].arg.method \notin INTERCEPTABLE_METHODS \cup IGNORED_METHODS

\* C4: a request for a method in neither set fails with 'No chain ID
\* selected' and calls nothing when no chain is selected; with a chain
\* selected it calls invokeMethod once, with the scope eip155:<decimal chain
\* id> and the method and params it was given, and returns what that call
\* answers.
C4_GenericRequestForwarded ==
    [][/\ IsGenericRequest(trace') =>
            IF ~Truthy(selectedChainId)
            THEN /\ Len(trace') = 2
                 /\ Threw(trace', "No chain ID selected")
                 /\ pending' = pending
            ELSE /\ Len(trace') = 2
                 /\ trace'[2].k = "sdk"
                 /\ trace'[2].name = "invokeMethod"
                 /\ trace'[2].arg.scope =
                        Eip155 \o <<":">>
                            \o ToRadix(FromRadix(Strip0x(selectedChainId.s),
                                                 16), 10)
                 /\ trace'[2].arg.method = trace'[1].arg.method
                 /\ trace'[2].arg.params = trace'[1].arg.params
                 /\ Len(pending') = Len(pending) + 1
                 /\ pending'[Len(pending')].op = "invokeMethod"
       /\ IsResume(trace', "invokeMethod") =>
            /\ Len(trace') = 2
            /\ \/ /\ Returned(trace', "request")
                  /\ trace'[2].arg = trace'[1].arg.result
               \/ Threw(trace', trace'[1].arg.result)]_vars

\* a generic request was forwarded while chain 0x89 was selected
C4_Witness ==
    /\ IsGenericRequest(trace)
    /\ selectedChainId = Str(<<"0", "x", "8", "9">>)
    /\ Len(trace) = 2
    /\ trace[2].name = "invokeMethod"
    /\ trace[2].arg.scope = <<"e", "i", "p", "1", "5", "5", ":", "1", "3", "7">>

(***************************************************************************)
(* C5                                                                      *)
(***************************************************************************)
\* C5: invokeMethod is called only by a request whose method is not in the
\* interceptable set: no request for an interceptable method, with or
\* without a selected chain, and no continuation of one, calls it.
C5_InterceptedNeverForwarded ==
    \A i \in Where(trace, "sdk", "invokeMethod") :
        /\ IsCall(trace, "request")
        /\ trace[1].arg.method \notin INTERCEPTABLE_METHODS

\* eth_accounts was requested while a chain was selected, and was answered
C5_Witness ==
    /\ IsCall(trace, "request")
    /\ trace[1].arg.method = "eth_accounts"
    /\ Truthy(selectedChainId)
    /\ Returned(trace, "request")

(***************************************************************************)
(* C6                                                                      *)
(***************************************************************************)
\* everything a call can change
StateVars ==
    <<accounts, selectedChainId, sessionScopes, latestChainConfiguration,
      windowListeners, coreListeners, notificationCallbacks, pending>>

Unsupported == "Method is not supported by Metamask Connect/EVM"

Permitted(hexChainId, scopes) ==
    \E n \in ChainIds : numberToHex(n) = hexChainId /\ ScopeOf(n) \in scopes

\* C8: switchChain with the chain that is selected sends nothing, emits
\* nothing, calls no handler and changes nothing.
C8_SwitchToSelectedChain ==
    [][(IsCall(trace', "switchChain")
            /\ Str(HexForm(trace'[1].arg.chainId)) = selectedChainId)
          => /\ Len(trace') = 1
             /\ UNCHANGED StateVars]_vars

\* switchChain(137) was called while 0x89 was selected
C8_Witness ==
    /\ IsCall(trace, "switchChain")
    /\ trace[1].arg.chainId = Num(137)
    /\ selectedChainId = Str(<<"0", "x", "8", "9">>)
    /\ Len(trace) = 1

\* C9: switchChain with a chain that is not selected and is permitted by
\* the session scopes selects it and emits chainChanged with it, sends
\* nothing to the wallet and keeps the pending chain configuration.
C9_SwitchToPermittedChain ==
    [][(IsCall(trace', "switchChain")
            /\ Str(HexForm(trace'[1].arg.chainId)) # selectedChainId
            /\ Permitted(HexForm(trace'[1].arg.chainId), sessionScopes))
          => /\ selectedChainId' = Str(HexForm(trace'[1].arg.chainId))
             /\ Cardinality(Where(trace', "emit", "chainChanged")) = 1
             /\ \A i \in Where(trace', "emit", "chainChanged") :
                    trace'[i].arg = HexForm(trace'[1].arg.chainId)
             /\ WhereKind(trace', "send") = {}
             /\ WhereKind(trace', "sdk") = {}
             /\ latestChainConfiguration' = latestChainConfiguration]_vars

\* switchChain(137) selected the permitted chain 0x89 while 0x1 was selected
\* and a configuration was pending
C9_Witness ==
    /\ IsCall(trace, "switchChain")
    /\ trace[1].arg.chainId = Num(137)
    /\ selectedChainId = Str(<<"0", "x", "8", "9">>)
    /\ Where(trace, "emit", "chainChanged") # {}
    /\ latestChainConfiguration = ConfigZero

\* C10: switchChain with a chain that is neither selected nor permitted
\* keeps the chainConfiguration it was given as the pending one and sends one
\* wallet_switchEthereumChain request with the hex chain id; the selected
\* chain stays as it was (a later chainChanged notification moves it).
C10_SwitchToUnknownChain ==
    [][(IsCall(trace', "switchChain")
            /\ Str(HexForm(trace'[1].arg.chainId)) # selectedChainId
            /\ ~Permitted(HexForm(trace'[1].arg.chainId), sessionScopes))
          => /\ latestChainConfiguration' = trace'[1].arg.chainConfiguration
             /\ Len(trace') = 2
             /\ trace'[2].k = "send"
             /\ trace'[2].name = "wallet_switchEthereumChain"
             /\ trace'[2].arg = HexForm(trace'[1].arg.chainId)
             /\ UNCHANGED <<accounts, selectedChainId, sessionScopes,
                            windowListeners, coreListeners,
                            notificationCallbacks, pending>>]_vars

\* switchChain(137, config) went to the wallet while 0x1 stayed selected
C10_Witness ==
    /\ IsCall(trace, "switchChain")
    /\ trace[1].arg.chainId = Num(137)
    /\ trace[1].arg.chainConfiguration = ConfigPolygon
    /\ selectedChainId = Str(<<"0", "x", "1">>)
    /\ latestChainConfiguration = ConfigPolygon
    /\ Where(trace, "send", "wallet_switchEthereumChain") # {}

(***************************************************************************)
(* C11                                                                     *)
(***************************************************************************)
\* the step sent a wallet_switchEthereumChain request to the wallet, through
\* switchChain or through an intercepted request
SwitchSent(tr) ==
    /\ \/ IsCall(tr, "switchChain")
       \/ /\ IsCall(tr, "request")
          /\ tr[1].arg.method = "wallet_switchEthereumChain"
    /\ Where(tr, "send", "wallet_switchEthereumChain") # {}

\* the chainConfiguration the switch request of the step was given
SwitchConfig(tr) ==
    IF IsCall(tr, "switchChain") THEN tr[1].arg.chainConfiguration ELSE NoConfig

\* the step is the delivery of a provider message carrying error code 4902
IsSwitchFailure(tr) ==
    /\ tr # <<>>
    /\ tr[1].k = "message"
    /\ tr[1].arg.name = "metamask-provider"
    /\ tr[1].arg.sameOrigin
    /\ tr[1].arg.code = 4902

\* C11: when a switch request that was given a chainConfiguration has been
\* sent and fails next with error code 4902, the manager sends one
\* wallet_addEthereumChain request carrying that chainConfiguration.
C11_SwitchFailureReplaysConfiguration ==
    [][(SwitchSent(trace) /\ SwitchConfig(trace).defined
            /\ IsSwitchFailure(trace'))
          => /\ Cardinality(Where(trace', "send", "wallet_addEthereumChain")) = 1
             /\ \A i \in Where(trace', "send", "wallet_addEthereumChain") :
                    trace'[i].arg = SwitchConfig(trace)]_vars

(***************************************************************************)
(* C12                                                                     *)
(***************************************************************************)
\* the step delivers the named wallet notification on the window channel,
\* as a provider message
IsWindowNotice(tr, method) ==
    /\ tr # <<>>
    /\ tr[1].k = "message"
    /\ tr[1].arg.name = "metamask-provider"
    /\ tr[1].arg.sameOrigin
    /\ tr[1].arg.method = method

\* the step delivers the named wallet notification on the transport channel
IsTransportNotice(tr, method) ==
    /\ tr # <<>>
    /\ tr[1].k = "notification"
    /\ tr[1].arg.method = method

\* the manager's window handler is registered
WindowHandlerOn ==
    \E i \in 1..Len(windowListeners) :
        windowListeners[i] = "metamaskProviderHandler"

\* the named notification is delivered on a channel the manager listens to
Hears(tr, method) ==
    \/ IsWindowNotice(tr, method) /\ WindowHandlerOn
    \/ IsTransportNotice(tr, method) /\ notificationCallbacks >= 1

\* C12: a metamask_chainChanged notification carrying the chain id c (0
\* included), on either channel, makes selectedChainId the hex form of c and
\* emits exactly one chainChanged event with that hex value.
C12_ChainChangedStoredAndEmitted ==
    [][(Hears(trace', "metamask_chainChanged")
            /\ trace'[1].arg.chainId.t = "string")
          => /\ selectedChainId' = trace'[1].arg.chainId
             /\ Cardinality(Where(trace', "emit", "chainChanged")) = 1
             /\ \A i \in Where(trace', "emit", "chainChanged") :
                    trace'[i].arg = trace'[1].arg.chainId.s]_vars

(***************************************************************************)
(* C13                                                                     *)
(***************************************************************************)
\* C13: last write wins on both channels: a metamask_accountsChanged
\* notification leaves accounts equal to its payload and a
\* metamask_chainChanged notification leaves selectedChainId equal to its
\* payload, whichever channel delivers it and whatever was called before.
C13_LastNotificationWins ==
    [][/\ Hears(trace', "metamask_accountsChanged")
             => accounts' = trace'[1].arg.params
       /\ (Hears(trace', "metamask_chainChanged")
               /\ trace'[1].arg.chainId.t = "string")
             => selectedChainId' = trace'[1].arg.chainId]_vars

(***************************************************************************)
(* C14                                                                     *)
(***************************************************************************)
\* the recovery listener is registered
RecoveryListenerOn ==
    \E i \in 1..Len(windowListeners) : windowListeners[i] = "recoverSession"

\* the step delivers a provider message whose result is an array of valid
\* addresses
IsAccountsResult(tr) ==
    /\ tr # <<>>
    /\ tr[1].k = "message"
    /\ tr[1].arg.name = "metamask-provider"
    /\ tr[1].arg.sameOrigin
    /\ tr[1].arg.hasResult
    /\ \A i \in 1..Len(tr[1].arg.result) :
           /\ Len(tr[1].arg.result[i]) = 42
           /\ SubSeq(tr[1].arg.result[i], 1, 2) = <<"0", "x">>
           /\ \A j \in 3..42 :
                  \E d \in 1..16 : Digits[d] = tr[1].arg.result[i][j]

\* the queue holds a wallet_sessionChanged record
HasSessionChanged(queue) ==
    \E i \in 1..Len(queue) : queue[i].method = "wallet_sessionChanged"

\* C14: a behaviour starts with the construction, which sends the
\* eth_accounts probe and installs the recovery listener exactly when the
\* notification queue holds a wallet_sessionChanged record; the recovery
\* listener is installed at no other time; while it is installed, a provider message whose result is an
\* array of valid addresses fires accountsChanged once with that array and
\* removes the listener, and once it is removed no such message fires
\* accountsChanged, so the recovery fires at most once.
C14_SessionRecoveryOnce ==
    /\ IsCall(trace, "constructor")
    /\ IF HasSessionChanged(trace[1].arg)
       THEN /\ RecoveryListenerOn
            /\ Cardinality(Where(trace, "send", "eth_accounts")) = 1
       ELSE /\ ~RecoveryListenerOn
            /\ WhereKind(trace, "send") = {}
    /\ [][/\ RecoveryListenerOn' => RecoveryListenerOn
          /\ IsAccountsResult(trace') =>
               IF RecoveryListenerOn
               THEN /\ accounts' = trace'[1].arg.result
                    /\ Cardinality(Where(trace', "emit", "accountsChanged")) = 1
                    /\ \A i \in Where(trace', "emit", "accountsChanged") :
                           trace'[i].arg = trace'[1].arg.result
                    /\ ~RecoveryListenerOn'
               ELSE /\ WhereKind(trace', "emit") = {}
                    /\ accounts' = accounts]_vars

\* the recovery listener has applied the two probed accounts and is gone
C14_Witness ==
    /\ IsAccountsResult(trace)
    /\ trace[1].arg.result = <<AddressA, AddressB>>
    /\ accounts = <<AddressA, AddressB>>
    /\ Where(trace, "emit", "accountsChanged") # {}
    /\ ~RecoveryListenerOn

(***************************************************************************)
(* C15                                                                     *)
(***************************************************************************)
\* the step is the return of a connect for chain c made in a state that an
\* earlier connect for c has left: c is selected and a transport callback is
\* installed
IsRepeatedConnect(tr, c) ==
    /\ IsResume(tr, "connect")
    /\ Returned(tr, "connect")
    /\ tr[1].arg.call.chainId = Num(c)
    /\ selectedChainId = Str(numberToHex(c))
    /\ notificationCallbacks >= 1

\* C15: connect is idempotent: a connect that returns in the state an
\* earlier connect with the same chain has left changes neither the session
\* state nor the installed listeners, so a later transport notification
\* still runs one callback.
C15_ConnectIdempotent ==
    [][\A c \in ChainIds :
          IsRepeatedConnect(trace', c)
             => UNCHANGED <<accounts, selectedChainId, sessionScopes,
                            latestChainConfiguration, windowListeners,
                            coreListeners, notificationCallbacks>>]_vars

(***************************************************************************)
(* C16                                                                     *)
(***************************************************************************)
\* the step is a request for an account-query method
IsAccountsQuery(tr) ==
    /\ IsCall(tr, "request")
    /\ tr[1].arg.method \in {"eth_accounts", "eth_coinbase"}

\* the last value of a non-empty set of positions
LastOf(positions) == CHOOSE i \in positions : \A j \in positions : j <= i

\* C16: a request for eth_accounts or eth_coinbase returns the account list
\* of the state it is made in, sends nothing and changes nothing; and the
\* account list is the one the accounts-changed handler applied last: a
\* step that emits accountsChanged leaves the list it emitted last, and no
\* other step changes the list.
C16_AccountsQueryReturnsAccounts ==
    [][/\ IsAccountsQuery(trace') =>
             /\ Len(trace') = 2
             /\ Returned(trace', "request")
             /\ trace'[2].arg = accounts
             /\ UNCHANGED StateVars
       /\ IF Where(trace', "emit", "accountsChanged") # {}
          THEN accounts' =
                   trace'[LastOf(Where(trace', "emit", "accountsChanged"))].arg
          ELSE accounts' = accounts]_vars

\* eth_coinbase was asked while two accounts were known, and returned them
C16_Witness ==
    /\ IsAccountsQuery(trace)
    /\ trace[1].arg.method = "eth_coinbase"
    /\ accounts = <<AddressA, AddressB>>
    /\ trace[Len(trace)].arg = <<AddressA, AddressB>>

(***************************************************************************)
(* C17                                                                     *)
(***************************************************************************)
\* the step is a call of disconnect(), of terminate() or of a
\* wallet_revokePermissions request
IsDisconnectCall(tr) ==
    \/ IsCall(tr, "disconnect")
    \/ IsCall(tr, "terminate")
    \/ /\ IsCall(tr, "request")
       /\ tr[1].arg.method = "wallet_revokePermissions"

\* C17: terminate() and a wallet_revokePermissions request do what
\* disconnect() does: each makes the one SDK call disconnect and nothing
\* else, and suspends as a disconnect, so that what follows when the SDK
\* answers (the events, the cleared state, the removed listeners) is the
\* continuation of disconnect() for all three.
C17_TerminateAndRevokeAreDisconnect ==
    [][IsDisconnectCall(trace') =>
          /\ Len(trace') = 2
          /\ trace'[2] = [k |-> "sdk", name |-> "disconnect", arg |-> <<>>]
          /\ Len(pending') = Len(pending) + 1
          /\ SubSeq(pending', 1, Len(pending)) = pending
          /\ pending'[Len(pending')].op = "disconnect"
          /\ UNCHANGED <<accounts, selectedChainId, sessionScopes,
                         latestChainConfiguration, windowListeners,
                         coreListeners, notificationCallbacks>>]_vars

\* wallet_revokePermissions was requested with a chain selected and
\* disconnect() is suspended
C17_Witness ==
    /\ IsCall(trace, "request")
    /\ trace[1].arg.method = "wallet_revokePermissions"
    /\ Truthy(selectedChainId)
    /\ Len(pending) >= 1
    /\ pending[Len(pending)].op = "disconnect"

(***************************************************************************)
(* C18                                                                     *)
(***************************************************************************)
\* the step is the SDK rejecting the named suspended call
IsRejection(tr, name) ==
    /\ IsResume(tr, name)
    /\ tr[1].arg.result = "upstream failure"

\* C18: when the SDK rejects a suspended connect or disconnect, the call
\* rejects with the SDK's error and does nothing else: no state changes, no
\* listener is installed or removed, nothing is emitted and no caller
\* handler runs.
C18_UpstreamFailureSurfaced ==
    [][(IsRejection(trace', "connect") \/ IsRejection(trace', "disconnect"))
          => /\ Len(trace') = 2
             /\ Threw(trace', "upstream failure")
             /\ UNCHANGED <<accounts, selectedChainId, sessionScopes,
                            latestChainConfiguration, windowListeners,
                            coreListeners, notificationCallbacks>>
             /\ Len(pending') = Len(pending) - 1]_vars

\* the SDK rejected a disconnect while two accounts and a chain were known
C18_Witness ==
    /\ IsRejection(trace, "disconnect")
    /\ Threw(trace, "upstream failure")
    /\ accounts = <<AddressA, AddressB>>
    /\ Truthy(selectedChainId)
    /\ WindowHandlerOn

(***************************************************************************)
(* C19                                                                     *)
(***************************************************************************)
MissingConfiguration == "No chain configuration found."

\* the step is a call by a caller that ends rejected with the message
RejectedToCaller(tr, message) ==
    /\ tr # <<>>
    /\ tr[1].k = "call"
    /\ Threw(tr, message)

\* the step runs the add-chain routine with no configuration available:
\* a wallet_addEthereumChain request that carries none, or a 4902 error
\* reaching the window handler, while no configuration is pending
AddChainWithoutConfiguration(tr) ==
    /\ ~latestChainConfiguration.defined
    /\ \/ /\ IsCall(tr, "request")
          /\ tr[1].arg.method = "wallet_addEthereumChain"
          /\ ~tr[1].arg.config.defined
       \/ IsSwitchFailure(tr) /\ WindowHandlerOn

\* C19: when the add-chain routine runs with no configuration available,
\* whether for a wallet_addEthereumChain request or for the replay after a
\* 4902 error, it fails with the missing-configuration error, no
\* wallet_addEthereumChain request is sent, and the failure reaches a caller
\* as a rejected result.
C19_MissingConfigurationRejected ==
    [][AddChainWithoutConfiguration(trace') =>
          /\ Where(trace', "throw", MissingConfiguration) # {}
          /\ Where(trace', "send", "wallet_addEthereumChain") = {}
          /\ RejectedToCaller(trace', MissingConfiguration)]_vars

(***************************************************************************)
(* C20                                                                     *)
(***************************************************************************)
\* entry i of the step is the call of a caller-supplied handler that comes
\* directly after the emission of the same event with the same payload
EmittedBeforeHandler(tr, i) ==
    /\ i > 1
    /\ tr[i - 1].k = "emit"
    /\ tr[i - 1].name = tr[i].name
    /\ tr[i - 1].arg = tr[i].arg

\* C20: each of the four change handlers (onChainChanged, onAccountsChanged,
\* onConnect, onDisconnect) emits its event on the provider before it calls
\* the matching caller-supplied handler, the session state having been
\* written first: every call of a caller-supplied handler directly follows
\* the emission of the same event.
C20_HandlersEmitThenCall ==
    [][\A i \in 1..Len(trace') :
           trace'[i].k = "handler" => EmittedBeforeHandler(trace', i)]_vars

(***************************************************************************)
(* C21                                                                     *)
(***************************************************************************)
\* the step is the continuation of a connect that runs to its return
IsConnectReturn(tr) == IsResume(tr, "connect") /\ Returned(tr, "connect")

\* C21: a call of connect emits nothing before the SDK's connect has
\* resolved; the continuation of a successful connect emits, before it
\* returns, exactly one connect event and then exactly one chainChanged
\* event and no other event, both carrying the hex form of the chain that is
\* selected when connect returns.
C21_ConnectThenChainChanged ==
    [][/\ IsConnectCall(trace') => WhereKind(trace', "emit") = {}
       /\ IsConnectReturn(trace') =>
            /\ Cardinality(Where(trace', "emit", "connect")) = 1
            /\ Cardinality(Where(trace', "emit", "chainChanged")) = 1
            /\ Cardinality(WhereKind(trace', "emit")) = 2
            /\ \A i \in Where(trace', "emit", "connect") :
               \A j \in Where(trace', "emit", "chainChanged") :
                   /\ i < j
                   /\ j < Len(trace')
                   /\ trace'[i].arg = selectedChainId'.s
                   /\ trace'[j].arg = selectedChainId'.s
                   /\ selectedChainId' =
                          Str(numberToHex(trace'[1].arg.call.chainId.n))]_vars

\* connect({chainId: 137}) has returned after emitting connect and
\* chainChanged with 0x89
C21_Witness ==
    /\ IsConnectReturn(trace)
    /\ selectedChainId = Str(<<"0", "x", "8", "9">>)
    /\ \E i \in Where(trace, "emit", "connect") :
       \E j \in Where(trace, "emit", "chainChanged") :
           /\ i < j
           /\ trace[i].arg = <<"0", "x", "8", "9">>
           /\ trace[j].arg = <<"0", "x", "8", "9">>

(***************************************************************************)
(* C22                                                                     *)
(***************************************************************************)
\* the step is the continuation of a disconnect that runs to its return
IsDisconnectReturn(tr) == IsResume(tr, "disconnect") /\ Returned(tr, "disconnect")

\* the emissions and listener removals of a disconnect, in their order:
\* disconnect, accountsChanged with the empty list, the window listener,
\* the session-changed listener, and no other emission
DisconnectSequence(tr) ==
    \E i, j, k, l \in 1..Len(tr) :
        /\ i < j /\ j < k /\ k < l
        /\ tr[i].k = "emit" /\ tr[i].name = "disconnect"
        /\ tr[j].k = "emit" /\ tr[j].name = "accountsChanged"
        /\ tr[j].arg = <<>>
        /\ tr[k].k = "removeEventListener"
        /\ tr[k].name = "metamaskProviderHandler"
        /\ tr[l].k = "off"
        /\ WhereKind(tr, "emit") = {i, j}

\* C22: a call of disconnect emits and clears nothing before the SDK's
\* disconnect has resolved; its continuation emits disconnect, then
\* accountsChanged with the empty list, and then removes the window-message
\* listener and the session-changed listener, and when it returns the
\* session state is cleared and neither listener is registered.
C22_DisconnectInOrder ==
    [][/\ IsDisconnectCall(trace') =>
            /\ WhereKind(trace', "emit") = {}
            /\ UNCHANGED <<accounts, selectedChainId, windowListeners,
                           coreListeners>>
       /\ IsDisconnectReturn(trace') =>
            /\ DisconnectSequence(trace')
            /\ accounts' = <<>>
            /\ selectedChainId' = Undefined
            /\ ~WindowHandlerOn'
            /\ coreListeners' = <<>>]_vars

(***************************************************************************)
(* C23                                                                     *)
(***************************************************************************)
\* the step replayed the pending configuration: a 4902 error made the
\* manager send wallet_addEthereumChain with it
ReplayedPending(tr) ==
    /\ IsSwitchFailure(tr)
    /\ \E i \in Where(tr, "send", "wallet_addEthereumChain") :
           tr[i].arg = latestChainConfiguration

\* the step is a chainChanged notification that completes the switch to the
\* chain of the pending configuration
SwitchCompleted(tr) ==
    /\ Hears(tr, "metamask_chainChanged")
    /\ latestChainConfiguration.defined
    /\ tr[1].arg.chainId = Str(latestChainConfiguration.chainId)

\* C23: each switch request that goes to the wallet makes the
\* chainConfiguration it was given the pending one; and once the pending
\* configuration has been replayed in a wallet_addEthereumChain request and
\* the switch to its chain has completed, the pending configuration is empty.
C23_PendingConfigurationCleared ==
    [][/\ SwitchSent(trace') =>
            latestChainConfiguration' = SwitchConfig(trace')
       /\ (ReplayedPending(trace) /\ SwitchCompleted(trace'))
            => ~latestChainConfiguration'.defined]_vars

(***************************************************************************)
(* C24                                                                     *)
(***************************************************************************)
\* the provider event of a wallet notification
EventOf(method) ==
    IF method = "metamask_accountsChanged"
    THEN "accountsChanged"
    ELSE "chainChanged"

\* the two steps deliver the same notification, one on the window channel
\* and one on the transport channel, and the manager listens to both
DeliveredOnBothChannels(first, second, method) ==
    /\ Hears(first, method)
    /\ Hears(second, method)
    /\ first[1].k # second[1].k
    /\ first[1].arg.params = second[1].arg.params
    /\ first[1].arg.chainId = second[1].arg.chainId

\* C24: when the same accountsChanged or chainChanged notification is
\* delivered on the window channel and on the transport channel, in either
\* order, the second delivery leaves accounts and selectedChainId as the
\* first left them, and fires the matching provider event and caller
\* handler once more, so that both have fired twice.
C24_DuplicateDeliveryIdempotent ==
    [][\A method \in {"metamask_accountsChanged", "metamask_chainChanged"} :
          (DeliveredOnBothChannels(trace, trace', method)
              /\ (method = "metamask_chainChanged"
                      => trace'[1].arg.chainId.t = "string"))
            => /\ UNCHANGED <<accounts, selectedChainId>>
               /\ Cardinality(Where(trace, "emit", EventOf(method))) = 1
               /\ Cardinality(Where(trace', "emit", EventOf(method))) = 1
               /\ Cardinality(Where(trace, "handler", EventOf(method))) = 1
               /\ Cardinality(Where(trace', "handler", EventOf(method))) = 1]_vars

(***************************************************************************)
(* C25                                                                     *)
(***************************************************************************)
\* the session state and the listeners
SharedState ==
    <<accounts, selectedChainId, sessionScopes, latestChainConfiguration,
      windowListeners, coreListeners, notificationCallbacks>>

\* two calls, one of connect and one of disconnect, have overlapped: the
\* last step resolved one of them while the other was suspended, and this
\* step resolves the other
ResolvesOverlap(first, second) ==
    /\ first # <<>>
    /\ first[1].k = "resume"
    /\ second[1].k = "resume"
    /\ {first[1].name, second[1].name} = {"connect", "disconnect"}
    /\ Len(pending) = 1
    /\ second[1].arg.call = pending[1]

\* of the two overlapping calls, the one resolved first was made last
LastCallResolvedFirst(first) == first[1].arg.at = 2

\* C25: when a connect and a disconnect overlap, the final state is that of
\* the call made last, in whatever order the SDK resolves them: when the
\* call made last has resolved first, the late continuation of the other
\* call leaves the session state and the listeners as they are; when the
\* call made last resolves last, a connect ends with the requested chain
\* selected and the notification listeners active, and a disconnect ends
\* with no account and the window listener removed.
C25_LastCallWins ==
    [][ResolvesOverlap(trace, trace') =>
          IF LastCallResolvedFirst(trace)
          THEN UNCHANGED SharedState
          ELSE IF trace'[1].name = "connect"
          THEN /\ selectedChainId' =
                      Str(numberToHex(trace'[1].arg.call.chainId.n))
               /\ notificationCallbacks' >= 1
               /\ WindowHandlerOn'
          ELSE /\ accounts' = <<>>
               /\ ~WindowHandlerOn']_vars

(***************************************************************************)
(* C26                                                                     *)
(***************************************************************************)
\* the step emitted the event with the payload
Emitted(tr, event, payload) ==
    \E i \in Where(tr, "emit", event) : tr[i].arg = payload

IsForwardPath(tr) ==
    \/ IsGenericRequest(tr)
    \/ IsResume(tr, "invokeMethod")

\* C27: a request of the provider that takes the forward path, or fails
\* with the unselected-chain error, changes neither accounts,
\* selectedChainId, the pending chain configuration, the session scopes nor
\* the listeners, emits no event and calls no caller handler, whether the
\* SDK answers with a result or with a failure.
C27_ForwardPathChangesNothing ==
    [][IsForwardPath(trace') =>
          /\ UNCHANGED <<accounts, selectedChainId, latestChainConfiguration,
                         sessionScopes, windowListeners, coreListeners,
                         notificationCallbacks>>
          /\ WhereKind(trace', "emit") = {}
          /\ WhereKind(trace', "handler") = {}
          /\ WhereKind(trace', "send") = {}]_vars

\* the SDK has answered a forwarded request while two accounts and a chain
\* were known
C27_Witness ==
    /\ IsResume(trace, "invokeMethod")
    /\ Returned(trace, "request")
    /\ trace[1].arg.result = "r2"
    /\ accounts = <<AddressA, AddressB>>
    /\ Truthy(selectedChainId)

(***************************************************************************)
(* C28                                                                     *)
(***************************************************************************)
\* C28: in the state a connect has returned in, a first connect or one
\* made after a disconnect, the window-message handler is registered: a
\* metamask_accountsChanged or metamask_chainChanged window message
\* delivered next stores its payload, and a 4902 error delivered next sends
\* one wallet_addEthereumChain request with the pending configuration.
C28_WindowHandlerWhileConnected ==
    [][/\ IsConnectReturn(trace') => WindowHandlerOn'
       /\ (IsConnectReturn(trace)
               /\ IsWindowNotice(trace', "metamask_accountsChanged"))
            => accounts' = trace'[1].arg.params
       /\ (IsConnectReturn(trace)
               /\ IsWindowNotice(trace', "metamask_chainChanged")
               /\ trace'[1].arg.chainId.t = "string")
            => selectedChainId' = trace'[1].arg.chainId
       /\ (IsConnectReturn(trace)
               /\ IsSwitchFailure(trace')
               /\ latestChainConfiguration.defined)
            => /\ Cardinality(Where(trace', "send",
                                    "wallet_addEthereumChain")) = 1
               /\ \A i \in Where(trace', "send", "wallet_addEthereumChain") :
                      trace'[i].arg = latestChainConfiguration]_vars

(***************************************************************************)
(* C29                                                                     *)
(***************************************************************************)
\* C29: when a disconnect has returned the stored session scopes are empty,
\* so that a switchChain made next, to a chain that is not the selected one,
\* is not answered from the scopes of the ended session: it selects nothing
\* and emits nothing itself and sends a wallet_switchEthereumChain request.
C29_ScopesEndWithSession ==
    [][/\ IsDisconnectReturn(trace') => sessionScopes' = {}
       /\ (IsDisconnectReturn(trace)
               /\ IsCall(trace', "switchChain")
               /\ Str(HexForm(trace'[1].arg.chainId)) # selectedChainId)
            => /\ SwitchSent(trace')
               /\ selectedChainId' = selectedChainId
               /\ WhereKind(trace', "emit") = {}]_vars

(***************************************************************************)
(* C30                                                                     *)
(***************************************************************************)
\* the wallet_addEthereumChain requests the step sent
AddChainSent(tr) == Where(tr, "send", "wallet_addEthereumChain")

\* C30: a 4902 error makes the manager send wallet_addEthereumChain only as
\* the answer to an outstanding switch request: it sends none when no
\* configuration is pending (no switch request was ever sent), none when
\* the switch has just completed with the chainChanged notification for the
\* chain of the pending configuration, and never more than one.
C30_AddChainOnlyForOutstandingSwitch ==
    [][IsSwitchFailure(trace') =>
          /\ ~latestChainConfiguration.defined => AddChainSent(trace') = {}
          /\ SwitchCompleted(trace) => AddChainSent(trace') = {}
          /\ Cardinality(AddChainSent(trace')) <= 1]_vars

=============================================================================
